---- MODULE Spec2Model ----
(***************************************************************************)
(* EyeShield EMR front end: the patient-record store (PatientRecordsPage), *)
(* its visible table, the dashboard statistics derived from that table and *)
(* the screening workflow that produces records.                           *)
(*                                                                         *)
(* Text is modelled as a sequence of one-character strings, so that        *)
(* str(), strip(), lower() and the substring test `in` are computed.       *)
(***************************************************************************)
EXTENDS Integers, Sequences, FiniteSets, TLC

(***************************************************************************)
(* Bounds of the model.                                                    *)
(***************************************************************************)
\* at most this many records in the view and in durable storage
MaxRecords == 2

(***************************************************************************)
(* Python text primitives.                                                 *)
(***************************************************************************)
Range(s) == {s[i] : i \in DOMAIN s}

UpperChars == <<"A","B","C","D","E","F","G","H","I","J","K","L","M",
                "N","O","P","Q","R","S","T","U","V","W","X","Y","Z">>
LowerChars == <<"a","b","c","d","e","f","g","h","i","j","k","l","m",
                "n","o","p","q","r","s","t","u","v","w","x","y","z">>
DigitChars == <<"0","1","2","3","4","5","6","7","8","9">>

\* the characters str.strip() removes
IsSpace(c) == c \in {" ", "\t", "\n", "\r"}

\* str.lower() on one character
LowerTable ==
    [c \in Range(UpperChars) |->
        LowerChars[CHOOSE i \in DOMAIN UpperChars : UpperChars[i] = c]]

LowerChar(c) == IF c \in DOMAIN LowerTable THEN LowerTable[c] ELSE c

\* str.lower()
Lower(s) == [i \in DOMAIN s |-> LowerChar(s[i])]

\* str.strip() leaving the text as typed
StripNothing(s) == s

\* str.strip(): drop leading and trailing whitespace
Strip(s) ==
    LET keep == {i \in DOMAIN s : ~IsSpace(s[i])}
    IN  IF keep = {} THEN <<>>
        ELSE LET lo == CHOOSE i \in keep : \A j \in keep : i <= j
                 hi == CHOOSE i \in keep : \A j \in keep : j <= i
             IN  SubSeq(s, lo, hi)

\* the Python test `sub in s` on strings
Contains(sub, s) ==
    \E k \in 0..(Len(s) - Len(sub)) :
        \A i \in DOMAIN sub : s[k + i] = sub[i]

\* decimal digits of a natural number
RECURSIVE NatStr(_)
NatStr(n) ==
    IF n < 10 THEN <<DigitChars[n + 1]>>
    ELSE NatStr(n \div 10) \o <<DigitChars[(n % 10) + 1]>>

(***************************************************************************)
(* Field values of a record: a Python str, int or None.                    *)
(***************************************************************************)
PyStr(s) == [t |-> "str", s |-> s, n |-> 0]
PyInt(n) == [t |-> "int", s |-> <<>>, n |-> n]
PyNone == [t |-> "none", s |-> <<>>, n |-> 0]

\* Python str(value)
StrOf(val) ==
    CASE val.t = "str"  -> val.s
      [] val.t = "int"  -> IF val.n < 0 THEN <<"-">> \o NatStr(-val.n)
                           ELSE NatStr(val.n)
      [] val.t = "none" -> <<"N","o","n","e">>

(***************************************************************************)
(* Durable storage: the SQLite table patient_records.                      *)
(***************************************************************************)
\* columns of the INSERT and of the SELECT, and of the table widget
NumColumns == 14

\* values as SQLite stores them
SqlText(s)    == [t |-> "TEXT", s |-> s, n |-> 0]
SqlInteger(n) == [t |-> "INTEGER", s |-> <<>>, n |-> n]
SqlNull       == [t |-> "NULL", s |-> <<>>, n |-> 0]

\* declared type of each column of patient_records (age and duration are
\* integers, every other column is text)
ColumnAffinity ==
    [c \in 1..NumColumns |-> IF c \in {4, 9} THEN "INTEGER" ELSE "TEXT"]

IsDigits(s) == s # <<>> /\ \A i \in DOMAIN s : \E d \in DOMAIN DigitChars : DigitChars[d] = s[i]

RECURSIVE NatOf(_)
NatOf(s) ==
    IF s = <<>> THEN 0
    ELSE 10 * NatOf(SubSeq(s, 1, Len(s) - 1))
         + ((CHOOSE d \in DOMAIN DigitChars : DigitChars[d] = s[Len(s)]) - 1)

\* sqlite3 parameter binding of one Python value into a column: the value's
\* storage class, then the column's type affinity
BindValue(val, affinity) ==
    CASE val.t = "none" -> SqlNull
      [] val.t = "int"  -> IF affinity = "TEXT" THEN SqlText(StrOf(val))
                           ELSE SqlInteger(val.n)
      [] val.t = "str"  -> IF affinity = "INTEGER" /\ IsDigits(Strip(val.s))
                           THEN SqlInteger(NatOf(Strip(val.s)))
                           ELSE SqlText(val.s)

\* the row the INSERT stores for patient_data
BindRow(patient_data) ==
    [c \in DOMAIN patient_data |-> BindValue(patient_data[c], ColumnAffinity[c])]

\* sqlite3 fetch of one stored value as a Python value
FetchValue(v) ==
    CASE v.t = "NULL"    -> PyNone
      [] v.t = "INTEGER" -> PyInt(v.n)
      [] v.t = "TEXT"    -> PyStr(v.s)

\* list(row) of one fetched row
FetchRow(row) == [c \in DOMAIN row |-> FetchValue(row[c])]

\* save_record_to_db storing the new row ahead of the older ones
save_record_to_db_front(store, patient_data, io_ok) ==
    IF io_ok /\ Len(patient_data) = NumColumns
    THEN <<BindRow(patient_data)>> \o store
    ELSE store

\* save_record_to_db: the table after the INSERT and commit; unchanged when
\* the connection, the statement (wrong number of bindings) or the commit fails
save_record_to_db(store, patient_data, io_ok) ==
    IF io_ok /\ Len(patient_data) = NumColumns
    THEN Append(store, BindRow(patient_data))
    ELSE store

\* whether save_record_to_db stored the record
WriteSucceeds(patient_data, io_ok) == io_ok /\ Len(patient_data) = NumColumns

\* connections a storage operation leaves open when it returns.  conn.close()
\* is the last statement of the try block: it runs when every statement
\* succeeded.  When one raised, the except clause only prints;
\* conn_released tells whether no handle is left all the same (connect
\* itself raised, or the interpreter finalised the unreferenced Connection
\* object as the method returned).
ConnectionsLeftOpen(io_ok, conn_released) ==
    IF io_ok \/ conn_released THEN 0 ELSE 1

\* the values of conn_released a storage operation can meet
ReleaseOutcomes(io_ok) == IF io_ok THEN {TRUE} ELSE BOOLEAN

\* the rows of SELECT ... FROM patient_records as the list comprehension
\* [list(row) for row in rows] builds them (rowid order)
FetchAll(store) == [i \in DOMAIN store |-> FetchRow(store[i])]

(***************************************************************************)
(* The records table widget.                                               *)
(***************************************************************************)
\* NormalizeFilter without strip()
NormalizeFilterNoStrip(filter_text) == Lower(filter_text)

\* the filter text _refresh_table compares with
NormalizeFilter(filter_text) == Lower(Strip(filter_text))

\* Show comparing with the field text as written, without lower()
ShowCaseSensitive(ft, patient_data) ==
    IF ft = <<>> THEN TRUE
    ELSE \E c \in DOMAIN patient_data :
            /\ patient_data[c] # PyNone
            /\ Contains(ft, Strip(StrOf(patient_data[c])))

\* whether _refresh_table shows patient_data under the normalized filter
Show(ft, patient_data) ==
    IF ft = <<>> THEN TRUE
    ELSE \E c \in DOMAIN patient_data :
            /\ patient_data[c] # PyNone
            /\ Contains(ft, Lower(Strip(StrOf(patient_data[c]))))

\* the cells of one table row: QTableWidgetItem(str(value)) per column
RowItems(patient_data) == [c \in DOMAIN patient_data |-> StrOf(patient_data[c])]

\* the rows _refresh_table(filter_text) inserts, one per shown record
RefreshRows(records, filter_text) ==
    LET ft    == NormalizeFilter(filter_text)
        shown == SelectSeq(records, LAMBDA pd : Show(ft, pd))
    IN  [r \in DOMAIN shown |-> RowItems(shown[r])]

\* _refresh_table without the setRowCount(0)
ClearRowsKeep(rows) == rows

\* patient_table.setRowCount(0)
ClearRows(rows) == <<>>

\* patient_table after _refresh_table(filter_text): cleared, then one row
\* inserted at the end per shown record
TableAfterRefresh(rows, records, filter_text) ==
    ClearRows(rows) \o RefreshRows(records, filter_text)

(***************************************************************************)
(* The dashboard statistics, read from the records table.                  *)
(***************************************************************************)
Max(a, b) == IF a >= b THEN a ELSE b

\* the em dash character U+2014, one character of text
EmDash == "--"

\* 0-based column of the Result cell
results_idx == 12

\* text of the item at 0-based (r, c), or "" when the table has no item there
ItemText(rows, r, c) ==
    IF (r + 1) \in DOMAIN rows /\ (c + 1) \in DOMAIN rows[r + 1]
    THEN rows[r + 1][c + 1]
    ELSE <<>>

\* number of rows among the first k whose Result cell contains "dr"
RECURSIVE DrCount(_, _)
DrCount(rows, k) ==
    IF k = 0 THEN 0
    ELSE DrCount(rows, k - 1)
         + (IF Contains(<<"d","r">>, Lower(ItemText(rows, k - 1, results_idx)))
            THEN 1 ELSE 0)

\* one line of the recent-activity label
RecentLine(rows, r) ==
    ItemText(rows, r, 0) \o <<" ", EmDash, " ">> \o ItemText(rows, r, 1)
        \o <<" ", EmDash, " ">> \o ItemText(rows, r, results_idx)

\* recent_lines: for r in range(total - 1, max(-1, total - 6), -1)
RecentLines(rows) ==
    LET total == Len(rows)
        stop  == Max(-1, total - 6)
    IN  [k \in 1..(total - 1 - stop) |-> RecentLine(rows, total - k)]

NoActivityText == <<"N","o"," ","r","e","c","e","n","t"," ","c","l","i","n","i","c","a","l"," ","a","c","t","i","v","i","t","y","."," ","R","e","a","d","y"," ","f","o","r"," ","p","a","t","i","e","n","t"," ","s","c","r","e","e","n","i","n","g","s",".">>

\* the labels as create_dashboard_page builds them
InitialDashboard ==
    [today  |-> <<"0">>, total |-> <<"0">>, images |-> <<"0">>, dr |-> <<"0">>,
     recent |-> <<NoActivityText>>]

\* the labels after refresh_dashboard has read the table rows
refresh_dashboard(rows) ==
    LET total == Len(rows)
        lines == RecentLines(rows)
    IN  [today  |-> NatStr(total),
         total  |-> NatStr(total),
         images |-> NatStr(total),
         dr     |-> NatStr(DrCount(rows, total)),
         recent |-> IF lines # <<>> THEN lines ELSE <<NoActivityText>>]

(***************************************************************************)
(* CSV export.                                                             *)
(***************************************************************************)
\* horizontal header labels of patient_table
HeaderLabels == <<
    <<"P","a","t","i","e","n","t"," ","I","D">>,
    <<"N","a","m","e">>,
    <<"B","i","r","t","h","d","a","t","e">>,
    <<"A","g","e">>,
    <<"S","e","x">>,
    <<"C","o","n","t","a","c","t">>,
    <<"E","y","e","(","s",")">>,
    <<"D","i","a","b","e","t","e","s"," ","T","y","p","e">>,
    <<"D","u","r","a","t","i","o","n"," ","(","y","r","s",")">>,
    <<"H","b","A","1","c">>,
    <<"P","r","e","v"," ","T","r","e","a","t","m","e","n","t">>,
    <<"N","o","t","e","s">>,
    <<"R","e","s","u","l","t">>,
    <<"C","o","n","f","i","d","e","n","c","e">> >>

\* the text csv.writer writes for one value (None is written as "")
CsvField(val) == IF val = PyNone THEN <<>> ELSE StrOf(val)

\* export_to_csv writing the fields of a record last to first
CsvRowReversed(patient_data) ==
    [c \in DOMAIN patient_data |->
        CsvField(patient_data[Len(patient_data) + 1 - c])]

CsvRow(patient_data) == [c \in DOMAIN patient_data |-> CsvField(patient_data[c])]

\* export_to_csv starting its loop at the second record
ExportRowsSkipFirst(records) ==
    <<HeaderLabels>> \o [i \in 1..(Len(records) - 1) |-> CsvRow(records[i + 1])]

\* the rows export_to_csv writes for `records`: the header, then one row each
ExportRows(records) ==
    <<HeaderLabels>> \o [i \in DOMAIN records |-> CsvRow(records[i])]

(***************************************************************************)
(* ScreeningPage: the two-step screening form.  The widgets the handlers   *)
(* branch on or store are fields of one record; the other inputs (sex,     *)
(* contact, eye, diabetes type, duration, previous treatment, notes) stay   *)
(* as the form creates them.                                               *)
(***************************************************************************)
\* QDate values
Date(y, m, d) == [y |-> y, m |-> m, d |-> d]

\* the day the model runs on (datetime.now(), QDate.currentDate())
TodayDate == Date(2025, 1, 1)

\* p_dob.minimumDate(), the date shown blank
MinimumDate == Date(2000, 1, 1)

\* the date of birth a user enters
BirthDateInput == Date(2010, 5, 1)

\* n in decimal, zero-padded to `width` digits
Pad(n, width) ==
    LET digits == NatStr(n)
    IN  IF Len(digits) >= width THEN digits
        ELSE [i \in 1..(width - Len(digits)) |-> "0"] \o digits

\* strftime("%Y%m%d")
Today == Pad(TodayDate.y, 4) \o Pad(TodayDate.m, 2) \o Pad(TodayDate.d, 2)

\* QDate.toString("yyyy-MM-dd")
DateStr(date) == Pad(date.y, 4) \o <<"-">> \o Pad(date.m, 2) \o <<"-">> \o Pad(date.d, 2)

\* the age update_age_from_dob computes for a date other than the minimum
AgeOn(today, date) ==
    LET age == today.y - date.y
    IN  IF today.m < date.m \/ (today.m = date.m /\ today.d < date.d)
        THEN age - 1 ELSE age

\* the text of the cleared result labels
Placeholder == <<EmDash>>

\* generate_patient_id writing the id without advancing the counter
generate_patient_id_stuck(s) ==
    [s EXCEPT !.p_id = <<"E","S","-">> \o Today \o <<"-">> \o Pad(s.patient_counter + 1, 4)]

\* generate_patient_id: count up and show the new id
generate_patient_id(s) ==
    [s EXCEPT !.patient_counter = @ + 1,
              !.p_id = <<"E","S","-">> \o Today \o <<"-">> \o Pad(s.patient_counter + 1, 4)]

\* the page as ScreeningPage.__init__ leaves it
InitialScreening ==
    generate_patient_id(
        [patient_counter |-> 0,
         p_id            |-> <<>>,
         p_name          |-> <<>>,
         p_dob           |-> MinimumDate,
         p_age           |-> 0,
         hba1c           |-> 40,        \* tenths of a percent
         current_image   |-> FALSE,
         r_class         |-> Placeholder,
         r_conf          |-> Placeholder,
         btn_analyze     |-> FALSE,
         btn_save        |-> FALSE,
         page            |-> 0,
         saved_ids       |-> <<>>])     \* history: the patient ids of the
                                        \* records this instance has saved

\* update_age_from_dob, the slot of p_dob.dateChanged
update_age_from_dob(s, date) ==
    [s EXCEPT !.p_dob = date,
              !.p_age = IF date = MinimumDate THEN 0
                        ELSE Max(0, AgeOn(TodayDate, date))]

\* clear_image
clear_image(s) ==
    [s EXCEPT !.current_image = FALSE,
              !.btn_analyze = FALSE,
              !.r_class = Placeholder,
              !.r_conf = Placeholder]

\* reset_screening
reset_screening(s) ==
    [generate_patient_id(s) EXCEPT
        !.p_name = <<>>,
        !.p_dob = MinimumDate,
        !.p_age = 0,
        !.hba1c = 70,
        !.current_image = FALSE,
        !.r_class = Placeholder,
        !.r_conf = Placeholder,
        !.btn_analyze = FALSE,
        !.btn_save = FALSE,
        !.page = 0]

\* analyze_image with an image loaded: the fixed result of the placeholder
analyze_image(s) ==
    [s EXCEPT !.r_class = <<"N","o"," ","D","R"," ","D","e","t","e","c","t","e","d">>,
              !.r_conf = <<"C","o","n","f","i","d","e","n","c","e",":"," ","9","3",".","8","%">>,
              !.btn_save = TRUE]

\* f"{value:.1f}%" of the HbA1c spin box
FormatHba1c(tenths) == NatStr(tenths \div 10) \o <<".">> \o NatStr(tenths % 10) \o <<"%">>

\* patient_data as save_screening builds it from the widgets
PatientData(s) ==
    <<PyStr(s.p_id),
      PyStr(Strip(s.p_name)),
      PyStr(IF s.p_dob = MinimumDate THEN <<>> ELSE DateStr(s.p_dob)),
      IF s.p_age > 0 THEN PyInt(s.p_age) ELSE PyStr(<<>>),
      PyStr(<<>>),
      PyStr(<<>>),
      PyStr(<<>>),
      PyStr(<<>>),
      PyInt(0),
      PyStr(FormatHba1c(s.hba1c)),
      PyStr(<<"N","o">>),
      PyStr(<<>>),
      PyStr(s.r_class),
      PyStr(s.r_conf)>>

(***************************************************************************)
(* Inputs: the records handed to add_patient_record and the texts typed    *)
(* into the search box.                                                    *)
(***************************************************************************)
\* a completed screening with every field entered
RecordJane ==
    <<PyStr(<<"E","S","-","2","0","2","5","0","1","0","1","-","0","0","0","1">>),
      PyStr(<<"J","a","n","e"," ","D","o","e">>),
      PyStr(<<"2","0","1","0","-","0","5","-","0","1">>),
      PyInt(14),
      PyStr(<<"F","e","m","a","l","e">>),
      PyStr(<<>>),
      PyStr(<<"B","o","t","h"," ","E","y","e","s">>),
      PyStr(<<"T","y","p","e"," ","2">>),
      PyInt(5),
      PyStr(<<"7",".","0","%">>),
      PyStr(<<"N","o">>),
      PyStr(<<>>),
      PyStr(<<"N","o"," ","D","R"," ","D","e","t","e","c","t","e","d">>),
      PyStr(<<"C","o","n","f","i","d","e","n","c","e",":"," ","9","3",".","8","%">>)>>

\* a screening with blank birthdate and age, as save_screening builds it
RecordJohn ==
    <<PyStr(<<"E","S","-","2","0","2","5","0","1","0","1","-","0","0","0","2">>),
      PyStr(<<"J","o","h","n"," ","R","o","e">>),
      PyStr(<<>>),
      PyStr(<<>>),
      PyStr(<<"M","a","l","e">>),
      PyStr(<<"5","5","5"," ","0","1","0","0">>),
      PyStr(<<"L","e","f","t"," ","E","y","e">>),
      PyStr(<<>>),
      PyInt(0),
      PyStr(<<"4",".","0","%">>),
      PyStr(<<"Y","e","s">>),
      PyStr(<<"M","i","l","d"," ","c","a","s","e">>),
      PyStr(<<"M","i","l","d"," ","D","R">>),
      PyStr(<<"C","o","n","f","i","d","e","n","c","e",":"," ","8","0",".","1","%">>)>>

\* a record with None for the fields its caller does not know
RecordAnn ==
    <<PyStr(<<"E","S","-","2","0","2","5","0","1","0","1","-","0","0","0","3">>),
      PyStr(<<"A","n","n"," ","L","e","e">>),
      PyNone,
      PyNone,
      PyStr(<<"O","t","h","e","r">>),
      PyNone,
      PyStr(<<"R","i","g","h","t"," ","E","y","e">>),
      PyStr(<<"T","y","p","e"," ","1">>),
      PyInt(12),
      PyStr(<<"9",".","5","%">>),
      PyStr(<<"N","o">>),
      PyNone,
      PyStr(<<"U","n","g","r","a","d","a","b","l","e">>),
      PyStr(<<"C","o","n","f","i","d","e","n","c","e",":"," ","5","1",".","0","%">>)>>

\* the records screenings append
SampleRecords == {RecordJane, RecordJohn}

\* the records a database file may hold
StoredRecords == {RecordJane, RecordJohn, RecordAnn}

\* the texts typed into the name field
NameBlank == <<" ">>
NameJo    == <<" ","J","o"," ","P","o","e"," ">>
NameInputs == {NameBlank, NameJo}

QueryEmpty == <<>>
QueryBlank == <<" ", " ">>
QueryDr    == <<"d","r">>
QueryJane  == <<" ","J","A","N","E"," ">>
QueryNone  == <<"n","o","n","e">>
QueryAge   == <<"1","4">>

Queries == {QueryEmpty, QueryBlank, QueryDr, QueryJane, QueryNone, QueryAge}

(***************************************************************************)
(* State.                                                                  *)
(***************************************************************************)
VARIABLES
    db,            \* rows of the table patient_records in the database file
    all_records,   \* PatientRecordsPage._all_records
    table,         \* rows of patient_table, each a sequence of cell texts
    search_text,   \* text of search_input
    dashboard,     \* texts of the dashboard's statistic labels
    csv_file,      \* rows the last handler wrote to the export file
    dialogs,       \* titles of the message boxes the last handler showed
    last,          \* the last operation and whether its storage access
                   \* (INSERT, SELECT or file write) succeeded
    appended,      \* the records whose INSERT was committed, in order
    screening,     \* the widgets of ScreeningPage
    open_connections  \* database connections the last handler opened and
                      \* had not closed when it returned

vars == <<db, all_records, table, search_text, dashboard, csv_file,
          dialogs, last, appended, screening, open_connections>>

Op(name, ok) == [op |-> name, ok |-> ok]

(***************************************************************************)
(* PatientRecordsPage.                                                     *)
(***************************************************************************)
\* EyeShieldApp.__init__ hands the records page to the screening page and
\* itself, as parent_app, to the records page before any handler can run
patient_records_page == TRUE
parent_app == TRUE

\* _refresh_table never notifying the dashboard
NotifyParentNever(has_parent, rows, labels) == labels

\* the dashboard after _refresh_table's notification: refreshed only when
\* parent_app is set
NotifyParent(has_parent, rows, labels) ==
    IF has_parent THEN refresh_dashboard(rows) ELSE labels

\* _all_records after add_patient_record's append
ViewAfterAdd(view, patient_data) == Append(view, patient_data)

\* the filter text add_patient_record and load_records_from_db refresh with
DefaultFilter == <<>>

\* load_records_from_db extending the view instead of replacing it
LoadedViewExtend(view, store) == view \o FetchAll(store)

\* _all_records after a successful load_records_from_db
LoadedView(view, store) == FetchAll(store)

\* add_patient_record(patient_data): append to the view, try the INSERT,
\* refresh the table without a filter
add_patient_record(patient_data, io_ok, conn_released) ==
    /\ all_records' = ViewAfterAdd(all_records, patient_data)
    /\ db' = save_record_to_db(db, patient_data, io_ok)
    /\ open_connections' = ConnectionsLeftOpen(io_ok, conn_released)
    /\ appended' = IF WriteSucceeds(patient_data, io_ok)
                   THEN Append(appended, patient_data) ELSE appended
    /\ table' = TableAfterRefresh(table, all_records', DefaultFilter)
    /\ dashboard' = NotifyParent(parent_app, table', dashboard)
    /\ UNCHANGED search_text

\* load_records_from_db(): on success replace the view and refresh the
\* table; on failure print and return
load_records_from_db(read_ok, conn_released) ==
    /\ open_connections' = ConnectionsLeftOpen(read_ok, conn_released)
    /\ IF read_ok
       THEN /\ all_records' = LoadedView(all_records, db)
            /\ table' = TableAfterRefresh(table, all_records', DefaultFilter)
            /\ dashboard' = NotifyParent(parent_app, table', dashboard)
       ELSE UNCHANGED <<all_records, table, dashboard>>
    /\ UNCHANGED <<db, search_text, appended>>

\* filter_table(text), the slot of search_input.textChanged
filter_table(text) ==
    /\ search_text' = text
    /\ table' = TableAfterRefresh(table, all_records, text)
    /\ dashboard' = NotifyParent(parent_app, table', dashboard)
    /\ UNCHANGED <<db, all_records, appended>>
    /\ open_connections' = 0

\* what export_to_csv writes to the chosen file: every row on success, the
\* first `written` rows when a write fails partway, nothing when no file is
\* chosen or it cannot be opened
ExportedFile(records, outcome, written) ==
    CASE outcome = "ok"         -> ExportRows(records)
      [] outcome = "write_fail" -> SubSeq(ExportRows(records), 1, written)
      [] OTHER                  -> <<>>

\* export_to_csv showing its confirmation after the try block, whatever
\* happened to the file
export_to_csv_confirming(outcome, written) ==
    /\ csv_file' = ExportedFile(all_records, outcome, written)
    /\ dialogs' = CASE outcome = "cancel" -> <<>>
                    [] outcome = "ok"     -> <<"Exported">>
                    [] OTHER              -> <<"Error", "Exported">>
    /\ UNCHANGED <<db, all_records, table, search_text, dashboard, appended>>
    /\ open_connections' = 0

\* export_to_csv(): outcome is "cancel" (no path chosen), "ok", "open_fail"
\* or "write_fail"
export_to_csv(outcome, written) ==
    /\ csv_file' = ExportedFile(all_records, outcome, written)
    /\ dialogs' = CASE outcome = "cancel" -> <<>>
                    [] outcome = "ok"     -> <<"Exported">>
                    [] OTHER              -> <<"Error">>
    /\ UNCHANGED <<db, all_records, table, search_text, dashboard, appended>>
    /\ open_connections' = 0

\* a new process: PatientRecordsPage.__init__ sets the view to [] and loads
\* while parent_app is not yet set, so the dashboard keeps its initial labels
StartPages(read_ok, conn_released) ==
    /\ open_connections' = ConnectionsLeftOpen(read_ok, conn_released)
    /\ all_records' = IF read_ok THEN LoadedView(<<>>, db) ELSE <<>>
    /\ table' = IF read_ok THEN TableAfterRefresh(<<>>, all_records', DefaultFilter) ELSE <<>>
    /\ search_text' = <<>>
    /\ dashboard' = NotifyParent(FALSE, table', InitialDashboard)
    /\ UNCHANGED <<db, appended>>

(***************************************************************************)
(* The records browser as a state machine.                                 *)
(***************************************************************************)
Init ==
    /\ db = <<>>
    /\ all_records = <<>>
    /\ table = <<>>
    /\ search_text = <<>>
    /\ dashboard = InitialDashboard
    /\ csv_file = <<>>
    /\ dialogs = <<>>
    /\ \E read_ok \in BOOLEAN : \E conn_released \in ReleaseOutcomes(read_ok) :
          /\ last = Op("start", read_ok)
          /\ open_connections = ConnectionsLeftOpen(read_ok, conn_released)
    /\ appended = <<>>
    /\ screening = InitialScreening

AddPatientRecord ==
    \E patient_data \in SampleRecords, io_ok \in BOOLEAN :
      \E conn_released \in ReleaseOutcomes(io_ok) :
        /\ Len(all_records) < MaxRecords
        /\ Len(db) < MaxRecords
        /\ add_patient_record(patient_data, io_ok, conn_released)
        /\ dialogs' = <<>>
        /\ csv_file' = <<>>
        /\ last' = Op("add", WriteSucceeds(patient_data, io_ok))
        /\ UNCHANGED screening

LoadRecords ==
    \E read_ok \in BOOLEAN : \E conn_released \in ReleaseOutcomes(read_ok) :
        /\ load_records_from_db(read_ok, conn_released)
        /\ dialogs' = <<>>
        /\ csv_file' = <<>>
        /\ last' = Op("load", read_ok)
        /\ UNCHANGED screening

FilterTable ==
    \E text \in Queries :
        /\ text # search_text
        /\ filter_table(text)
        /\ dialogs' = <<>>
        /\ csv_file' = <<>>
        /\ last' = Op("filter", TRUE)
        /\ UNCHANGED screening

ExportToCsv ==
    \E outcome \in {"cancel", "ok", "open_fail", "write_fail"} :
        \E written \in 0..Len(all_records) :
            /\ outcome # "write_fail" => written = 0
            /\ export_to_csv(outcome, written)
            /\ last' = Op(IF outcome = "cancel" THEN "export_cancelled"
                          ELSE "export", outcome = "ok")
            /\ UNCHANGED screening

Restart ==
    \E read_ok \in BOOLEAN : \E conn_released \in ReleaseOutcomes(read_ok) :
        /\ StartPages(read_ok, conn_released)
        /\ dialogs' = <<>>
        /\ csv_file' = <<>>
        /\ last' = Op("start", read_ok)
        /\ screening' = InitialScreening

Next ==
    \/ AddPatientRecord
    \/ LoadRecords
    \/ FilterTable
    \/ ExportToCsv
    \/ Restart

Spec == Init /\ [][Next]_vars

(***************************************************************************)
(* The filter as a function of the view: the page right after a start      *)
(* that loaded a database file, then any search texts.                     *)
(***************************************************************************)
\* at most this many records in the loaded database file
MaxView == 3

RECURSIVE SeqsUpTo(_, _)
SeqsUpTo(S, n) ==
    IF n = 0 THEN {<<>>}
    ELSE LET shorter == SeqsUpTo(S, n - 1)
         IN  shorter \cup {Append(s, x) : s \in shorter, x \in S}

InitFilter ==
    \E stored \in SeqsUpTo(StoredRecords, MaxView) :
        /\ db = [i \in DOMAIN stored |-> BindRow(stored[i])]
        /\ all_records = LoadedView(<<>>, db)
        /\ table = TableAfterRefresh(<<>>, all_records, DefaultFilter)
        /\ search_text = <<>>
        /\ dashboard = InitialDashboard
            /\ csv_file = <<>>
        /\ dialogs = <<>>
        /\ last = Op("start", TRUE)
        /\ appended = stored
        /\ screening = InitialScreening
        /\ open_connections = ConnectionsLeftOpen(TRUE, TRUE)

NextFilter == FilterTable

SpecFilter == InitFilter /\ [][NextFilter]_vars

(***************************************************************************)
(* The screening workflow as a state machine: the handlers of              *)
(* ScreeningPage, a save reaching the records page, and process restarts.   *)
(***************************************************************************)
\* at most this many patient ids generated in one process
MaxPatients == 3

\* a handler that touches only the screening page
ScreeningOnly ==
    /\ last' = Op("screening", TRUE)
    /\ csv_file' = <<>>
    /\ UNCHANGED <<db, all_records, table, search_text, dashboard, appended>>
    /\ open_connections' = 0

InitScreening ==
    /\ db = <<>>
    /\ all_records = <<>>
    /\ table = <<>>
    /\ search_text = <<>>
    /\ dashboard = InitialDashboard
    /\ csv_file = <<>>
    /\ dialogs = <<>>
    /\ \E read_ok \in BOOLEAN : \E conn_released \in ReleaseOutcomes(read_ok) :
          /\ last = Op("start", read_ok)
          /\ open_connections = ConnectionsLeftOpen(read_ok, conn_released)
    /\ appended = <<>>
    /\ screening = InitialScreening

\* typing into p_name on the patient information page
EditName ==
    \E name \in NameInputs \cup {<<>>} :
        /\ screening.page = 0
        /\ name # screening.p_name
        /\ screening' = [screening EXCEPT !.p_name = name]
        /\ dialogs' = <<>>
        /\ ScreeningOnly

\* choosing a date in p_dob
EditDob ==
    \E date \in {MinimumDate, BirthDateInput} :
        /\ screening.page = 0
        /\ date # screening.p_dob
        /\ screening' = update_age_from_dob(screening, date)
        /\ dialogs' = <<>>
        /\ ScreeningOnly

\* validate_and_proceed, the slot of btn_proceed
ValidateAndProceed ==
    /\ screening.page = 0
    /\ IF Strip(screening.p_name) = <<>> \/ screening.p_dob = MinimumDate
       THEN /\ dialogs' = <<"Error">>
            /\ UNCHANGED screening
       ELSE /\ dialogs' = <<>>
            /\ screening' = [screening EXCEPT !.page = 1]
    /\ ScreeningOnly

\* cancel_screening, the slot of btn_cancel: reset when the user confirms
CancelScreening ==
    \E yes \in BOOLEAN :
        /\ screening.page = 0
        /\ screening.patient_counter < MaxPatients
        /\ screening' = IF yes THEN reset_screening(screening) ELSE screening
        /\ dialogs' = <<"Cancel">>
        /\ ScreeningOnly

\* upload_image, the slot of btn_upload: a file is chosen or the dialog is
\* dismissed
UploadImage ==
    \E chosen \in BOOLEAN :
        /\ screening.page = 1
        /\ screening' = IF chosen
                        THEN [screening EXCEPT !.current_image = TRUE,
                                               !.btn_analyze = TRUE]
                        ELSE screening
        /\ dialogs' = <<>>
        /\ ScreeningOnly

\* clear_image, the slot of btn_clear
ClearImage ==
    /\ screening.page = 1
    /\ screening' = clear_image(screening)
    /\ dialogs' = <<>>
    /\ ScreeningOnly

\* analyze_image, the slot of btn_analyze
AnalyzeImage ==
    /\ screening.page = 1
    /\ screening.btn_analyze
    /\ IF ~screening.current_image
       THEN /\ dialogs' = <<"Error">>
            /\ UNCHANGED screening
       ELSE /\ dialogs' = <<"Success">>
            /\ screening' = analyze_image(screening)
    /\ ScreeningOnly

\* go_back_to_patient_info, the slot of btn_back
GoBack ==
    \E yes \in BOOLEAN :
        /\ screening.page = 1
        /\ screening' = IF yes THEN [clear_image(screening) EXCEPT !.page = 0]
                        ELSE screening
        /\ dialogs' = <<"Go Back">>
        /\ ScreeningOnly

\* reset_screening, the slot of btn_new
NewPatient ==
    /\ screening.page = 1
    /\ screening.patient_counter < MaxPatients
    /\ screening' = reset_screening(screening)
    /\ dialogs' = <<>>
    /\ ScreeningOnly

\* the message boxes save_screening shows once the name is valid: the warning
\* when add_patient_record raised, then the confirmation
SaveDialogs(add_raised) ==
    (IF add_raised THEN <<"Warning">> ELSE <<>>) \o <<"Saved">>

\* save_screening, the slot of btn_save.  add_patient_record raises nothing
\* (save_record_to_db catches every exception), so the except branch is
\* never taken.
SaveScreening ==
    \E io_ok \in BOOLEAN : \E conn_released \in ReleaseOutcomes(io_ok) :
        /\ screening.page = 1
        /\ screening.btn_save
        /\ IF Strip(screening.p_name) = <<>>
           THEN /\ dialogs' = <<"Error">>
                /\ last' = Op("save_screening", FALSE)
                /\ open_connections' = 0
                /\ UNCHANGED <<db, all_records, table, search_text, dashboard,
                               appended, screening>>
           ELSE /\ screening.patient_counter < MaxPatients
                /\ Len(all_records) < MaxRecords
                /\ Len(db) < MaxRecords
                /\ IF patient_records_page
                   THEN add_patient_record(PatientData(screening), io_ok,
                                           conn_released)
                   ELSE /\ open_connections' = 0
                        /\ UNCHANGED <<db, all_records, table, search_text,
                                       dashboard, appended>>
                /\ dialogs' = SaveDialogs(FALSE)
                /\ last' = Op("save_screening",
                              patient_records_page
                              /\ WriteSucceeds(PatientData(screening), io_ok))
                /\ screening' = reset_screening(
                        [screening EXCEPT !.saved_ids = Append(@, screening.p_id)])
        /\ csv_file' = <<>>

NextScreening ==
    \/ EditName
    \/ EditDob
    \/ ValidateAndProceed
    \/ CancelScreening
    \/ UploadImage
    \/ ClearImage
    \/ AnalyzeImage
    \/ GoBack
    \/ NewPatient
    \/ SaveScreening
    \/ Restart

SpecScreening == InitScreening /\ [][NextScreening]_vars

(***************************************************************************)
(* The record store called by any client: add_patient_record with any      *)
(* record, one without a patient id included, loads and process restarts.  *)
(***************************************************************************)
\* a record whose patient_id is the empty text
RecordNoId == [RecordJohn EXCEPT ![1] = PyStr(<<>>)]

\* the records a client may pass to add_patient_record
ClientRecords == SampleRecords \cup {RecordNoId}

AppendAnyRecord ==
    \E patient_data \in ClientRecords, io_ok \in BOOLEAN :
      \E conn_released \in ReleaseOutcomes(io_ok) :
        /\ Len(all_records) < MaxRecords
        /\ Len(db) < MaxRecords
        /\ add_patient_record(patient_data, io_ok, conn_released)
        /\ dialogs' = <<>>
        /\ csv_file' = <<>>
        /\ last' = Op("add", WriteSucceeds(patient_data, io_ok))
        /\ UNCHANGED screening

NextAppend ==
    \/ AppendAnyRecord
    \/ LoadRecords
    \/ Restart

SpecAppend == Init /\ [][NextAppend]_vars

(***************************************************************************)
(* Properties of the record store.                                         *)
(***************************************************************************)
\* the specification's reading of the filter: the trimmed, lower-cased query
\* is a substring of the lower-cased text of a non-null field
QueryOfClaim(q) == Strip(Lower(q))

MatchesClaim(q, record) ==
    \E c \in DOMAIN record :
        /\ record[c] # PyNone
        /\ Contains(QueryOfClaim(q), Lower(StrOf(record[c])))

FilteredClaim(q, view) == SelectSeq(view, LAMBDA record : MatchesClaim(q, record))

RowsOf(records) == [r \in DOMAIN records |-> [c \in DOMAIN records[r] |-> StrOf(records[r][c])]]

IsBlank(q) == \A i \in DOMAIN q : IsSpace(q[i])

\* the query that filters by a field value: its text, "" for None
\* (filter_text or "")
QueryOfValue(val) == IF val = PyNone THEN <<>> ELSE StrOf(val)

\* C1: an add_patient_record whose durable write fails leaves the in-memory
\* view as it was: the view is updated only after the write has succeeded.
C1_FailedWriteNotInView ==
    [][(last'.op = "add" /\ ~last'.ok) => all_records' = all_records]_vars

\* C2: whenever the durable write of a save fails, the failure reaches the
\* caller: save_screening does not show the "Saved" confirmation for a record
\* that was not durably stored.
C2_FailureSignalled ==
    (last.op = "save_screening" /\ ~last.ok) => "Saved" \notin Range(dialogs)

\* C3: starting from an empty store, a process start whose load succeeds
\* yields a view equal to the successfully appended records, in the order
\* appended, none lost, duplicated or reordered.
C3_RoundTrip ==
    (last.op = "start" /\ last.ok) => all_records = appended

C3_Witness ==
    /\ last.op = "start" /\ last.ok
    /\ Len(all_records) = 2
    /\ all_records[1] # all_records[2]
    /\ db # <<>>

\* C4: after filter_table(q) the table shows exactly the records of the view
\* that match q, in view order; and filtering by any field value of a record
\* of the view shows that record.
C4_FilterShowsMatches ==
    /\ last.op = "filter" => table = RowsOf(FilteredClaim(search_text, all_records))
    /\ \A i \in DOMAIN all_records : \A c \in DOMAIN all_records[i] :
          LET shown == TableAfterRefresh(table, all_records,
                                         QueryOfValue(all_records[i][c]))
          IN  \E r \in DOMAIN shown : shown[r] = RowsOf(all_records)[i]

C4_Witness ==
    /\ last.op = "filter"
    /\ search_text = QueryDr
    /\ Len(all_records) = 3
    /\ Len(table) = 2
    /\ all_records[2] = RecordAnn

\* C5: filtering with the empty query or a whitespace-only query shows every
\* record of the view, in view order.
C5_BlankQueryShowsAll ==
    (last.op = "filter" /\ IsBlank(search_text)) => table = RowsOf(all_records)

C5_Witness ==
    /\ last.op = "filter"
    /\ search_text = QueryBlank
    /\ Len(table) = 3

\* C6: filter_table(q) leaves the view and durable storage unchanged, and the
\* rows it shows depend on the view and the query only, not on the rows shown
\* before, so the same query against the same view shows the same rows.
C6_FilterIsPure ==
    [][last'.op = "filter" =>
          /\ all_records' = all_records
          /\ db' = db
          /\ table' = TableAfterRefresh(<<>>, all_records, search_text')]_vars

C6_Witness ==
    /\ last.op = "filter"
    /\ search_text = QueryJane
    /\ Len(all_records) = 2
    /\ Len(table) = 1
    /\ db # <<>>

\* C7: a successful load_records_from_db replaces the view with exactly the
\* durable records in insertion order, does not write to durable storage, and
\* loading twice gives what loading once gives.
C7_LoadReplacesView ==
    /\ [][(last'.op = "load" /\ last'.ok) =>
            (all_records' = appended /\ db' = db)]_vars
    /\ [](LoadedView(LoadedView(all_records, db), db) = LoadedView(all_records, db))

C7_Witness ==
    /\ last.op = "load" /\ last.ok
    /\ Len(all_records) = 2
    /\ all_records[1] # all_records[2]

\* C8: when load_records_from_db cannot read durable storage, the in-memory
\* view and the visible table are empty afterwards: a failed load, also a
\* failed re-load, leaves no earlier view in place.
C8_FailedLoadEmptyView ==
    (last.op \in {"load", "start"} /\ ~last.ok) => (all_records = <<>> /\ table = <<>>)

\* C9: in every reachable state the visible rows are the filter of the
\* search-box text applied to the view.  Stated for the states whose view
\* holds exactly the durably appended records, so that no failed write is
\* involved.
C9_TableIsFilterOfSearchText ==
    all_records = appended =>
        table = RowsOf(FilteredClaim(search_text, all_records))

\* C10 as claimed: the data rows export_to_csv writes are the records
\* matching the search-box text, one row each, in view order.  Stated for the
\* states whose view holds exactly the durably appended records and whose
\* table shows the filter of the search text.
C10_ExportsFilteredView ==
    (/\ last.op = "export" /\ last.ok
     /\ all_records = appended
     /\ table = RowsOf(FilteredClaim(search_text, all_records))) =>
        SubSeq(csv_file, 2, Len(csv_file))
            = [i \in DOMAIN FilteredClaim(search_text, all_records) |->
                  CsvRow(FilteredClaim(search_text, all_records)[i])]

\* C10 amended: the data rows export_to_csv writes are all the records of the
\* in-memory view, one row each, in view order, whatever the search text.
C10_ExportsWholeView ==
    (last.op = "export" /\ last.ok) =>
        /\ Len(csv_file) = Len(all_records) + 1
        /\ \A i \in DOMAIN all_records :
              csv_file[i + 1] = [c \in DOMAIN all_records[i] |->
                                    IF all_records[i][c] = PyNone THEN <<>>
                                    ELSE StrOf(all_records[i][c])]

C10_Witness ==
    /\ last.op = "export" /\ last.ok
    /\ search_text = QueryJane
    /\ Len(all_records) = 2
    /\ Len(table) = 1
    /\ Len(csv_file) = 3

(***************************************************************************)
(* Properties of the export.                                               *)
(***************************************************************************)
\* the field names of the data model, in declared order
FieldNames == <<
    <<"p","a","t","i","e","n","t","_","i","d">>,
    <<"n","a","m","e">>,
    <<"b","i","r","t","h","d","a","t","e">>,
    <<"a","g","e">>,
    <<"s","e","x">>,
    <<"c","o","n","t","a","c","t">>,
    <<"e","y","e">>,
    <<"d","i","a","b","e","t","e","s","_","t","y","p","e">>,
    <<"d","u","r","a","t","i","o","n","_","y","e","a","r","s">>,
    <<"h","b","a","1","c">>,
    <<"p","r","e","v","_","t","r","e","a","t","m","e","n","t">>,
    <<"n","o","t","e","s">>,
    <<"r","e","s","u","l","t">>,
    <<"c","o","n","f","i","d","e","n","c","e">> >>

\* the column titles of the records table, in column order
ColumnTitles == <<
    <<"P","a","t","i","e","n","t"," ","I","D">>,
    <<"N","a","m","e">>,
    <<"B","i","r","t","h","d","a","t","e">>,
    <<"A","g","e">>,
    <<"S","e","x">>,
    <<"C","o","n","t","a","c","t">>,
    <<"E","y","e","(","s",")">>,
    <<"D","i","a","b","e","t","e","s"," ","T","y","p","e">>,
    <<"D","u","r","a","t","i","o","n"," ","(","y","r","s",")">>,
    <<"H","b","A","1","c">>,
    <<"P","r","e","v"," ","T","r","e","a","t","m","e","n","t">>,
    <<"N","o","t","e","s">>,
    <<"R","e","s","u","l","t">>,
    <<"C","o","n","f","i","d","e","n","c","e">> >>

\* the text of one field in the export file
FieldText(val) == IF val = PyNone THEN <<>> ELSE StrOf(val)

\* every data row written holds the 14 fields of its record in declared order
DataRowsInFieldOrder ==
    \A j \in 2..Len(csv_file) :
        /\ Len(csv_file[j]) = NumColumns
        /\ \A c \in 1..NumColumns :
              csv_file[j][c] = FieldText(all_records[j - 1][c])

\* C11 as claimed: the first row export_to_csv writes holds exactly the field
\* names of the data model, in declared order, and every data row holds its
\* 14 fields in that order.
C11_HeaderIsFieldNames ==
    (last.op = "export" /\ last.ok) =>
        (csv_file[1] = FieldNames /\ DataRowsInFieldOrder)

\* C11 amended: the first row export_to_csv writes holds the 14 column titles
\* of the records table, in column order, and every data row holds the 14
\* fields of its record in the same order.
C11_HeaderIsColumnTitles ==
    (last.op = "export" /\ csv_file # <<>>) =>
        (csv_file[1] = ColumnTitles /\ DataRowsInFieldOrder)

C11_Witness ==
    /\ last.op = "export" /\ last.ok
    /\ Len(csv_file) = 3
    /\ csv_file[2] # csv_file[3]

\* C12: export_to_csv, whether it succeeds, fails at any point or is
\* cancelled at the file dialog, leaves the view, the table rows and durable
\* storage unchanged; a failed export shows the "Error" box and never the
\* "Exported" box.
C12_ExportLeavesStore ==
    [][last'.op \in {"export", "export_cancelled"} =>
          /\ all_records' = all_records
          /\ table' = table
          /\ db' = db
          /\ (last'.op = "export" /\ ~last'.ok) => "Error" \in Range(dialogs')
          /\ ~last'.ok => "Exported" \notin Range(dialogs')]_vars

C12_Witness ==
    /\ last.op = "export" /\ ~last.ok
    /\ Len(csv_file) = 2
    /\ Len(all_records) = 2
    /\ table # <<>>
    /\ db # <<>>
    /\ dialogs = <<"Error">>

(***************************************************************************)
(* Properties of the dashboard.                                            *)
(***************************************************************************)
\* the last handler ran _refresh_table and so, parent_app being set,
\* refresh_dashboard
RefreshedDashboard ==
    \/ last.op \in {"add", "filter"}
    \/ last.op = "load" /\ last.ok

\* C13: whenever refresh_dashboard has just run, the total it displays is the
\* number of records in the view, whatever the search text.  Stated for the
\* states whose view holds exactly the durably appended records, so that no
\* failed write is involved.
C13_TotalIsViewLength ==
    (RefreshedDashboard /\ all_records = appended) =>
        dashboard.total = NatStr(Len(all_records))

\* C14: every add_patient_record whose write succeeded has run
\* refresh_dashboard on the refreshed table before returning, and the total
\* the dashboard displays is the number of records in the view, the new
\* record included.
C14_AddRefreshesDashboard ==
    [][(last'.op = "add" /\ last'.ok) =>
          /\ Len(all_records') = Len(all_records) + 1
          /\ dashboard' = refresh_dashboard(table')
          /\ dashboard'.total = NatStr(Len(all_records'))]_vars

C14_Witness ==
    /\ last.op = "add" /\ last.ok
    /\ search_text = QueryNone
    /\ Len(all_records) = 2
    /\ dashboard.total = <<"2">>

\* C15: when the view holds exactly two records, one with result
\* "No DR Detected" and one with result "Mild DR", and the table shows both,
\* the DR Positive count refresh_dashboard displays is 1.
C15_OnePositiveCase ==
    (/\ RefreshedDashboard
     /\ all_records = appended
     /\ Len(all_records) = 2
     /\ {all_records[1], all_records[2]} = {RecordJane, RecordJohn}
     /\ Len(table) = 2) =>
        dashboard.dr = <<"1">>

\* the recent-activity line of a record of the view
LineOfRecord(record) ==
    StrOf(record[1]) \o <<" ", EmDash, " ">> \o StrOf(record[2])
        \o <<" ", EmDash, " ">> \o StrOf(record[13])

\* the number of recent records shown for a view of n records
RecentCount(n) == IF n < 5 THEN n ELSE 5

\* C16: whenever refresh_dashboard has just run on a view of n records, the
\* recent-activity list shows exactly the last min(5, n) records of the view,
\* each once, and the placeholder is shown exactly when n = 0.  Stated for
\* the states whose view holds exactly the durably appended records, so that
\* no failed write is involved.
C16_RecentIsTailOfView ==
    (RefreshedDashboard /\ all_records = appended) =>
        LET n == Len(all_records)
        IN  /\ (dashboard.recent = <<NoActivityText>>) <=> (n = 0)
            /\ n > 0 =>
                 /\ Len(dashboard.recent) = RecentCount(n)
                 /\ \A j \in 1..RecentCount(n) :
                       dashboard.recent[j] = LineOfRecord(all_records[n + 1 - j])

(***************************************************************************)
(* Properties of the records kept.                                         *)
(***************************************************************************)
IsPrefix(s, t) == Len(s) <= Len(t) /\ SubSeq(t, 1, Len(s)) = s

\* C17: within one process, after the load of its start, an
\* add_patient_record whose write succeeded adds exactly the new record at
\* the end of the view and leaves the earlier records as they were, and no
\* operation of the records page removes or changes a record already in the
\* view or in durable storage.
C17_ViewOnlyGrows ==
    [][last'.op # "start" =>
          /\ (last'.op = "add" /\ last'.ok) =>
                /\ Len(all_records') = Len(all_records) + 1
                /\ all_records'[Len(all_records')] = appended'[Len(appended')]
          /\ IsPrefix(all_records, all_records')
          /\ IsPrefix(db, db')]_vars

\* C18: in every state of the screening workflow, every row persisted to
\* patient_records has a non-empty patient_id and a name that is not blank.
C18_PersistedHaveIdAndName ==
    \A i \in DOMAIN db :
        LET record == FetchRow(db[i])
        IN  /\ record[1] # PyNone /\ StrOf(record[1]) # <<>>
            /\ record[2] # PyNone /\ ~IsBlank(StrOf(record[2]))

C18_Witness ==
    /\ last.op = "save_screening" /\ last.ok
    /\ Len(db) = 2
    /\ FetchRow(db[2])[2] = PyStr(<<"J","o"," ","P","o","e">>)
    /\ FetchRow(db[1])[1] # FetchRow(db[2])[1]

\* C19: add_patient_record rejects a record whose patient_id is empty: it
\* adds nothing to the view and persists nothing, so a record that a
\* successful add_patient_record put into the view or into durable storage
\* has a non-empty patient_id.
C19_EmptyIdRejected ==
    [][(last'.op = "add" /\ last'.ok) =>
          /\ \A i \in DOMAIN all_records' :
                i > Len(all_records) => StrOf(all_records'[i][1]) # <<>>
          /\ \A i \in DOMAIN db' :
                i > Len(db) => StrOf(FetchRow(db'[i])[1]) # <<>>]_vars

\* C20: when save_record_to_db or load_records_from_db has returned, after a
\* success or after a failure, no connection it opened is still open.
C20_ConnectionReleased ==
    [][last'.op \in {"add", "load", "start"} => open_connections' = 0]_vars

(***************************************************************************)
(* Properties of the screening workflow.                                   *)
(***************************************************************************)
\* the record holds the placeholder as its result or as its confidence
HasPlaceholder(record) ==
    record[13] = PyStr(Placeholder) \/ record[14] = PyStr(Placeholder)

\* no durably saved record holds the placeholder
NoPlaceholderSaved ==
    \A i \in DOMAIN appended : ~HasPlaceholder(appended[i])

\* C21: in every state of the screening workflow, Save Screening is enabled
\* only if an image is loaded and the classification and confidence shown
\* are those analyze_image set for it; and no saved record has the
\* placeholder as its result or confidence.
C21_SaveOnlyAfterAnalysis ==
    /\ screening.btn_save =>
          /\ screening.current_image
          /\ screening.r_class = analyze_image(screening).r_class
          /\ screening.r_conf = analyze_image(screening).r_conf
    /\ NoPlaceholderSaved

\* the first patient id of a process on the day modelled
FirstPatientId == <<"E","S","-","2","0","2","5","0","1","0","1","-","0","0","0","1">>

\* C22: within one process the patient counter goes up by one with every
\* generate_patient_id call, each call showing a new id, and no two records
\* saved by the process carry the same patient id; a process start sets the
\* counter to 1 again, so an id already in durable storage is issued again.
C22_CounterPerProcess ==
    /\ [][last'.op # "start" =>
            \/ /\ screening'.patient_counter = screening.patient_counter
               /\ screening'.p_id = screening.p_id
            \/ /\ screening'.patient_counter = screening.patient_counter + 1
               /\ screening'.p_id # screening.p_id]_vars
    /\ [](\A i, j \in DOMAIN screening.saved_ids :
             i # j => screening.saved_ids[i] # screening.saved_ids[j])
    /\ [](last.op = "start" =>
             /\ screening.patient_counter = 1
             /\ screening.p_id = FirstPatientId)

C22_Witness ==
    /\ last.op = "save_screening" /\ last.ok
    /\ Len(db) = 2
    /\ FetchRow(db[1])[1] = FetchRow(db[2])[1]
    /\ screening.saved_ids = <<FirstPatientId>>
    /\ screening.patient_counter = 2

\* a process that has saved two records
TwoSavedInOneProcess ==
    /\ Len(screening.saved_ids) = 2
    /\ screening.patient_counter = 3

(***************************************************************************)
(* Properties of application start.                                        *)
(***************************************************************************)
\* C23: when EyeShieldApp.__init__ has finished and its load read n records
\* from durable storage, the dashboard shows n as the total and, when n > 0,
\* a recent-activity list instead of the placeholder.
C23_DashboardShowsLoadedData ==
    (last.op = "start" /\ last.ok) =>
        /\ dashboard.total = NatStr(Len(db))
        /\ Len(db) > 0 => dashboard.recent # <<NoActivityText>>

====
